---- MODULE Spec2Model ----
(***************************************************************************)
(* SSD1306_OLED_HW_I2C_LIB: a driver for a 128x64 SSD1306 OLED panel on    *)
(* the AVR hardware I2C (TWI) unit.  The model has three layers:           *)
(*   - the pure helpers of the driver (byte arithmetic, the font and       *)
(*     initialisation tables, usint2decascii);                             *)
(*   - the driver's operations, each translated to the sequence of bus     *)
(*     primitives it executes (start, address, byte, stop);                *)
(*   - the machine those primitives act on: the TWI session, the interrupt *)
(*     flag, the error pin and the SSD1306's cursor and display RAM.       *)
(***************************************************************************)
EXTENDS Integers, Sequences, FiniteSets, TLC

VARIABLES
    script,     \* calls the application's straight-line code still has to make
    calls,      \* public calls the application has made on its own
    op,         \* the public operation running (or the last one that returned)
    ret,        \* value the last operation returned (usint2decascii), or -1
    bus,        \* how the panel answers: ack, nack, or any (each step either)
    prog,       \* bus primitives the running operation still has to execute
    wire,       \* bus primitives executed since the running operation was called
    busOpen,    \* a START was issued and no STOP yet
    ie,         \* SREG I flag: interrupt delivery enabled
    portd,      \* level of ERROR_PIN in PORTD
    twsr,       \* TWSR: status code of the last start, address or byte step
    twint,      \* TWCR.TWINT as the driver reads it: the TWI unit has finished
                \* the step it was given (FALSE while the driver waits for it)
    nerr,       \* D_ERROR calls made by the last bus primitive
    synced,     \* the panel's state is known: every step so far was
                \* acknowledged and was defined for the panel
    oled,       \* SSD1306 registers: channel, pending command, cursor, ranges
    powerOn,    \* pattern the display RAM held at power-on
    gddram,     \* SSD1306 display RAM cells written since power-on:
                \* address (page * 128 + column) -> byte
    numdec      \* ssd1306_numdec_buffer

vars == <<script, calls, op, ret, bus, prog, wire, busOpen, ie, twsr, twint, portd, nerr,
          synced, oled, powerOn, gddram, numdec>>

---------------------------------------------------------------------------
(* Byte arithmetic of the C code (uint8_t, with int promotion).            *)

Pow2(k) == IF k = 0 THEN 1 ELSE IF k = 1 THEN 2 ELSE IF k = 2 THEN 4
           ELSE IF k = 3 THEN 8 ELSE IF k = 4 THEN 16 ELSE IF k = 5 THEN 32
           ELSE IF k = 6 THEN 64 ELSE IF k = 7 THEN 128 ELSE 256

U8(v) == v % 256

U16(v) == v % 65536

Shl(v, k) == v * Pow2(k)

Shr(v, k) == v \div Pow2(k)

Bit(v, k) == (v \div Pow2(k)) % 2

BitAnd(a, b) ==
    LET n(k) == Bit(a, k) * Bit(b, k) * Pow2(k)
    IN  n(0) + n(1) + n(2) + n(3) + n(4) + n(5) + n(6) + n(7)

BitOr(a, b) == a + b - BitAnd(a, b)

---------------------------------------------------------------------------
(* Tables and constants.                                                   *)

\* ASCII 6x8 font, 5 column bytes per glyph, glyphs for ASCII 32 .. 122.
D_FONT6x8 == <<
0, 0, 0, 0, 0,   \* ASCII 32
    0, 0, 47, 0, 0,   \* ASCII 33
    0, 7, 0, 7, 0,   \* ASCII 34
    20, 127, 20, 127, 20,   \* ASCII 35
    36, 42, 127, 42, 18,   \* ASCII 36
    98, 100, 8, 19, 35,   \* ASCII 37
    54, 73, 85, 34, 80,   \* ASCII 38
    0, 5, 3, 0, 0,   \* ASCII 39
    0, 28, 34, 65, 0,   \* ASCII 40
    0, 65, 34, 28, 0,   \* ASCII 41
    20, 8, 62, 8, 20,   \* ASCII 42
    8, 8, 62, 8, 8,   \* ASCII 43
    0, 0, 160, 96, 0,   \* ASCII 44
    8, 8, 8, 8, 8,   \* ASCII 45
    0, 96, 96, 0, 0,   \* ASCII 46
    32, 16, 8, 4, 2,   \* ASCII 47
    62, 81, 73, 69, 62,   \* ASCII 48
    0, 66, 127, 64, 0,   \* ASCII 49
    66, 97, 81, 73, 70,   \* ASCII 50
    33, 65, 69, 75, 49,   \* ASCII 51
    24, 20, 18, 127, 16,   \* ASCII 52
    39, 69, 69, 69, 57,   \* ASCII 53
    60, 74, 73, 73, 48,   \* ASCII 54
    1, 113, 9, 5, 3,   \* ASCII 55
    54, 73, 73, 73, 54,   \* ASCII 56
    6, 73, 73, 41, 30,   \* ASCII 57
    0, 54, 54, 0, 0,   \* ASCII 58
    0, 86, 54, 0, 0,   \* ASCII 59
    8, 20, 34, 65, 0,   \* ASCII 60
    20, 20, 20, 20, 20,   \* ASCII 61
    0, 65, 34, 20, 8,   \* ASCII 62
    2, 1, 81, 9, 6,   \* ASCII 63
    50, 73, 89, 81, 62,   \* ASCII 64
    124, 18, 17, 18, 124,   \* ASCII 65
    127, 73, 73, 73, 54,   \* ASCII 66
    62, 65, 65, 65, 34,   \* ASCII 67
    127, 65, 65, 34, 28,   \* ASCII 68
    127, 73, 73, 73, 65,   \* ASCII 69
    127, 9, 9, 9, 1,   \* ASCII 70
    62, 65, 73, 73, 122,   \* ASCII 71
    127, 8, 8, 8, 127,   \* ASCII 72
    0, 65, 127, 65, 0,   \* ASCII 73
    32, 64, 65, 63, 1,   \* ASCII 74
    127, 8, 20, 34, 65,   \* ASCII 75
    127, 64, 64, 64, 64,   \* ASCII 76
    127, 2, 12, 2, 127,   \* ASCII 77
    127, 4, 8, 16, 127,   \* ASCII 78
    62, 65, 65, 65, 62,   \* ASCII 79
    127, 9, 9, 9, 6,   \* ASCII 80
    62, 65, 81, 33, 94,   \* ASCII 81
    127, 9, 25, 41, 70,   \* ASCII 82
    70, 73, 73, 73, 49,   \* ASCII 83
    1, 1, 127, 1, 1,   \* ASCII 84
    63, 64, 64, 64, 63,   \* ASCII 85
    31, 32, 64, 32, 31,   \* ASCII 86
    63, 64, 56, 64, 63,   \* ASCII 87
    99, 20, 8, 20, 99,   \* ASCII 88
    7, 8, 112, 8, 7,   \* ASCII 89
    97, 81, 73, 69, 67,   \* ASCII 90
    0, 127, 65, 65, 0,   \* ASCII 91
    85, 42, 85, 42, 85,   \* ASCII 92
    0, 65, 65, 127, 0,   \* ASCII 93
    4, 2, 1, 2, 4,   \* ASCII 94
    64, 64, 64, 64, 64,   \* ASCII 95
    0, 1, 2, 4, 0,   \* ASCII 96
    32, 84, 84, 84, 120,   \* ASCII 97
    127, 72, 68, 68, 56,   \* ASCII 98
    56, 68, 68, 68, 32,   \* ASCII 99
    56, 68, 68, 72, 127,   \* ASCII 100
    56, 84, 84, 84, 24,   \* ASCII 101
    8, 126, 9, 1, 2,   \* ASCII 102
    24, 164, 164, 164, 124,   \* ASCII 103
    127, 8, 4, 4, 120,   \* ASCII 104
    0, 68, 125, 64, 0,   \* ASCII 105
    64, 128, 132, 125, 0,   \* ASCII 106
    127, 16, 40, 68, 0,   \* ASCII 107
    0, 65, 127, 64, 0,   \* ASCII 108
    124, 4, 24, 4, 120,   \* ASCII 109
    124, 8, 4, 4, 120,   \* ASCII 110
    56, 68, 68, 68, 56,   \* ASCII 111
    252, 36, 36, 36, 24,   \* ASCII 112
    24, 36, 36, 24, 252,   \* ASCII 113
    124, 8, 4, 4, 8,   \* ASCII 114
    72, 84, 84, 84, 32,   \* ASCII 115
    4, 63, 68, 64, 32,   \* ASCII 116
    60, 64, 64, 32, 124,   \* ASCII 117
    28, 32, 64, 32, 28,   \* ASCII 118
    60, 64, 48, 64, 60,   \* ASCII 119
    68, 40, 16, 40, 68,   \* ASCII 120
    28, 160, 160, 160, 124,   \* ASCII 121
    68, 100, 84, 76, 68   \* ASCII 122
>>

\* Display initialization sequence.
init_sequence == <<
    174,        \* 0xAE display off
    32, 0,      \* 0x20 memory addressing mode, 00 = horizontal
    176,        \* 0xB0 page start address
    200,        \* 0xC8 COM output scan direction
    0,          \* low column address
    16,         \* 0x10 high column address
    64,         \* 0x40 start line
    129, 0,     \* 0x81 contrast
    161,        \* 0xA1 segment re-map
    166,        \* 0xA6 normal display
    168, 63,    \* 0xA8 multiplex ratio
    164,        \* 0xA4 output follows RAM
    211, 0,     \* 0xD3 display offset
    213,        \* 0xD5 clock divide ratio
    240,        \* 0xF0 divide ratio
    217, 34,    \* 0xD9 pre-charge period
    218, 18,    \* 0xDA COM pins
    219,        \* 0xDB vcomh
    32,         \* 0x20
    141, 20,    \* 0x8D charge pump
    175         \* 0xAF display on
>>

\* Header constants (SSD1306_OLED_HW_I2C_LIB.h).
USINT2DECASCII_MAX_DIGITS == 5

OLED_CMD_SET_COLUMN_RANGE == 33

OLED_CMD_SET_PAGE_RANGE == 34

SLA_W == 120

\* TWI status codes the driver expects (TWSR & 0xF8).
TW_START == 8

TW_MT_SLA_ACK == 24

TW_MT_DATA_ACK == 40

\* Geometry of the panel.
Columns == 128

Pages == 8

---------------------------------------------------------------------------
(* usint2decascii: 16-bit unsigned to 5 decimal characters, leading        *)
(* positions blanked; returns the offset of the first significant digit.   *)

powers == <<10000, 1000, 100, 10, 1>>

\* while (num >= powers[pos]) { digit++; num -= powers[pos]; }
RECURSIVE CountDigit(_, _, _)
CountDigit(num, p, digit) ==
    IF num >= p THEN CountDigit(num - p, p, digit + 1)
    ELSE [num |-> num, digit |-> digit]

\* Faulty variant of DecLoop: without the position check, so a zero in the units
\* position is blanked like the leading ones.
RECURSIVE DecLoop_BlankUnits(_, _, _, _)
DecLoop_BlankUnits(pos, num, digits, buffer) ==
    IF pos >= 5 THEN [digits |-> digits, buffer |-> buffer]
    ELSE LET r == CountDigit(num, powers[pos + 1], 0)
             first == (digits = USINT2DECASCII_MAX_DIGITS - 1)
             digit == IF first /\ r.digit = 0 THEN -16 ELSE r.digit
             nd == IF first /\ r.digit # 0 THEN pos ELSE digits
         IN  DecLoop_BlankUnits(pos + 1, r.num, nd,
                                [buffer EXCEPT ![pos + 1] = digit + 48])

\* Faulty variant of DecLoop: each character is stored one position too far
\* (buffer[pos + 1]), the last one where the terminator belongs.
RECURSIVE DecLoop_Shifted(_, _, _, _)
DecLoop_Shifted(pos, num, digits, buffer) ==
    IF pos >= 5 THEN [digits |-> digits, buffer |-> buffer]
    ELSE LET r == CountDigit(num, powers[pos + 1], 0)
             first == (digits = USINT2DECASCII_MAX_DIGITS - 1)
             digit == IF first /\ r.digit = 0 /\ pos < USINT2DECASCII_MAX_DIGITS - 1
                      THEN -16 ELSE r.digit
             nd == IF first /\ r.digit # 0 THEN pos ELSE digits
         IN  DecLoop_Shifted(pos + 1, r.num, nd, [buffer EXCEPT ![pos + 2] = digit + 48])

\* One iteration of the for loop, for position pos (0-based), then the rest.
RECURSIVE DecLoop(_, _, _, _)
DecLoop(pos, num, digits, buffer) ==
    IF pos >= 5 THEN [digits |-> digits, buffer |-> buffer]
    ELSE LET r == CountDigit(num, powers[pos + 1], 0)
             first == (digits = USINT2DECASCII_MAX_DIGITS - 1)
             digit == IF first /\ r.digit = 0 /\ pos < USINT2DECASCII_MAX_DIGITS - 1
                      THEN -16 ELSE r.digit
             nd == IF first /\ r.digit # 0 THEN pos ELSE digits
         IN  DecLoop(pos + 1, r.num, nd, [buffer EXCEPT ![pos + 1] = digit + 48])

\* buffer is the char array, 1-based here: buffer[k + 1] is the C buffer[k].
usint2decascii(num, buffer) ==
    DecLoop(0, num, USINT2DECASCII_MAX_DIGITS - 1, buffer)

---------------------------------------------------------------------------
(* The driver's operations as the bus primitives they execute, in order.   *)
(* A primitive is START (start condition, after cli), SLA (address byte),  *)
(* TX (one byte through D_TX) or STOP (stop condition, then sei).          *)

Prim(k, b) == [k |-> k, b |-> b]

D_TX(DATA) == <<Prim("TX", DATA)>>

D_START_CMD == <<Prim("START", 0), Prim("SLA", SLA_W)>> \o D_TX(0)

D_START_DAT == <<Prim("START", 0), Prim("SLA", SLA_W)>> \o D_TX(64)

D_STOP == <<Prim("STOP", 0)>>

\* n times D_TX(b): for (i = 0; i < n; i++) D_TX(b);
Repeat(b, n) == [i \in 1 .. n |-> Prim("TX", b)]

\* Faulty variant of D_INIT: the table is replayed from its second byte.
D_INIT_SkipFirst ==
    D_START_CMD
    \o [i \in 1 .. Len(init_sequence) - 1 |-> Prim("TX", init_sequence[i + 1])]
    \o D_TX(OLED_CMD_SET_COLUMN_RANGE) \o D_TX(0) \o D_TX(127)
    \o D_TX(OLED_CMD_SET_PAGE_RANGE) \o D_TX(0) \o D_TX(7)
    \o D_STOP

D_INIT ==
    D_START_CMD
    \o [i \in 1 .. Len(init_sequence) |-> Prim("TX", init_sequence[i])]
    \o D_TX(OLED_CMD_SET_COLUMN_RANGE) \o D_TX(0) \o D_TX(127)
    \o D_TX(OLED_CMD_SET_PAGE_RANGE) \o D_TX(0) \o D_TX(7)
    \o D_STOP

\* Faulty variant of D_SETPOS: the column's high nibble is sent without the 0x10 bias.
D_SETPOS_NoBias(x, y) ==
    D_START_CMD
    \o D_TX(U8(176 + y))
    \o D_TX(Shr(BitAnd(x, 240), 4))
    \o D_TX(BitAnd(x, 15))
    \o D_STOP

\* Faulty variant of D_SETPOS: the column's low nibble is sent before the high one.
D_SETPOS_LowFirst(x, y) ==
    D_START_CMD
    \o D_TX(U8(176 + y))
    \o D_TX(BitAnd(x, 15))
    \o D_TX(BitOr(Shr(BitAnd(x, 240), 4), 16))
    \o D_STOP

D_SETPOS(x, y) ==
    D_START_CMD
    \o D_TX(U8(176 + y))
    \o D_TX(BitOr(Shr(BitAnd(x, 240), 4), 16))
    \o D_TX(BitAnd(x, 15))
    \o D_STOP

\* Faulty variant of D_CLEAR: one page of zero bytes instead of the whole frame.
D_CLEAR_OnePage == D_SETPOS(0, 0) \o D_START_DAT \o Repeat(0, Columns) \o D_STOP

D_CLEAR == D_SETPOS(0, 0) \o D_START_DAT \o Repeat(0, Columns * Pages) \o D_STOP

\* Faulty variant of D_ON: the session is left open.
D_ON_NoStop == D_START_CMD \o D_TX(175)

D_ON == D_START_CMD \o D_TX(175) \o D_STOP

D_OFF == D_START_CMD \o D_TX(174) \o D_STOP

D_CONTRAST(contrast) == D_START_CMD \o D_TX(129) \o D_TX(contrast) \o D_STOP

\* Faulty variant of D_DRAW_HOR: the loop runs once too often (i <= length).
D_DRAW_HOR_OneMore(xpos, ypos, length) ==
    LET ypage == ypos \div 8
        dot_byte == U8(Shl(1, ypos % 8))
    IN  D_SETPOS(xpos, ypage) \o D_START_DAT \o Repeat(dot_byte, length + 1) \o D_STOP

D_DRAW_HOR(xpos, ypos, length) ==
    LET ypage == ypos \div 8
        dot_byte == U8(Shl(1, ypos % 8))
    IN  D_SETPOS(xpos, ypage) \o D_START_DAT \o Repeat(dot_byte, length) \o D_STOP

\* Faulty variant of VertPage: the byte is written without positioning first.
VertPage_NoPos(xpos, page, byte) == D_START_DAT \o D_TX(byte) \o D_STOP

\* One page of a vertical line: its own position command and data session.
VertPage(xpos, page, byte) ==
    D_SETPOS(xpos, page) \o D_START_DAT \o D_TX(byte) \o D_STOP

\* Faulty variant of VertMiddle: the intermediate pages are written dark.
RECURSIVE VertMiddle_Dark(_, _, _)
VertMiddle_Dark(xpos, i, ypage_end) ==
    IF i < ypage_end
    THEN VertPage(xpos, i, 0) \o VertMiddle_Dark(xpos, U8(i + 1), ypage_end)
    ELSE <<>>

\* for (i = ypage_start + 1; i < ypage_end; i++) { ... D_TX(0xFF) ... }
RECURSIVE VertMiddle(_, _, _)
VertMiddle(xpos, i, ypage_end) ==
    IF i < ypage_end
    THEN VertPage(xpos, i, 255) \o VertMiddle(xpos, U8(i + 1), ypage_end)
    ELSE <<>>

D_DRAW_VERT(xpos, ypos, length) ==
    LET ypage_start == ypos \div 8
        ypage_end == U8((ypos + length) \div 8)
        ypages_span == U8(ypage_end - ypage_start)
        dot_byte_start == U8(Shl(255, ypos % 8))
        dot_byte_end == U8(Shr(255, (ypos + length) % 8))
    IN  IF ypages_span = 0
        THEN VertPage(xpos, ypage_start, BitAnd(dot_byte_start, dot_byte_end))
        ELSE VertPage(xpos, ypage_start, dot_byte_start)
             \o (IF ypages_span > 1
                 THEN VertMiddle(xpos, U8(ypage_start + 1), ypage_end)
                 ELSE <<>>)
             \o VertPage(xpos, ypage_end, dot_byte_end)

\* pgm_read_byte(&D_FONT6x8[idx]); past the table the flash holds whatever
\* the linker placed there: junk.
FontRead(idx, junk) == IF idx < Len(D_FONT6x8) THEN D_FONT6x8[idx + 1] ELSE junk

D_PRINT_CHAR(ch, junk) ==
    LET c == U8(ch - 32)
    IN  D_START_DAT \o D_TX(0)
        \o [i \in 1 .. 5 |-> Prim("TX", FontRead(c * 5 + (i - 1), junk))]
        \o D_STOP

\* The characters of the C string starting at buffer[from] (0-based), up to
\* the first NUL.
RECURSIVE CStr(_, _)
CStr(buffer, from) ==
    IF from >= Len(buffer) \/ buffer[from + 1] = 0 THEN <<>>
    ELSE <<buffer[from + 1]>> \o CStr(buffer, from + 1)

\* while (*s) D_PRINT_CHAR(*s++); s is given as its characters before the NUL.
RECURSIVE D_PRINT_STR(_, _)
D_PRINT_STR(s, junk) ==
    IF s = <<>> THEN <<>>
    ELSE D_PRINT_CHAR(Head(s), junk) \o D_PRINT_STR(Tail(s), junk)

\* The buffer after D_PRINT_INT's terminator store and conversion.
PrintIntBuffer(num, buffer) ==
    usint2decascii(num, [buffer EXCEPT ![USINT2DECASCII_MAX_DIGITS + 1] = 0]).buffer

D_PRINT_INT(num, buffer, junk) ==
    LET terminated == [buffer EXCEPT ![USINT2DECASCII_MAX_DIGITS + 1] = 0]
        r == usint2decascii(num, terminated)
    IN  D_PRINT_STR(CStr(r.buffer, r.digits), junk)

---------------------------------------------------------------------------
(* The panel: the SSD1306's I2C front end, command decoder and display     *)
(* RAM, as far as the driver's byte streams exercise them.                 *)

\* Registers after power-on reset; the display RAM is not reset.
OledReset ==
    [chan |-> "idle",       \* idle | addr | ctrl | cmd | dat
     cmd |-> -1,            \* opcode waiting for argument bytes, or -1
     arg |-> -1,            \* first argument of a two-argument command, or -1
     mode |-> 2,            \* 0 horizontal, 1 vertical, 2 page addressing
     page |-> 0, col |-> 0,
     colStart |-> 0, colEnd |-> 127, pageStart |-> 0, pageEnd |-> 7,
     on |-> FALSE, contrast |-> 127,
     defined |-> TRUE]      \* no undefined command or control byte so far

OneArgCmds == {32, 129, 141, 168, 211, 213, 217, 218, 219}

TwoArgCmds == {OLED_CMD_SET_COLUMN_RANGE, OLED_CMD_SET_PAGE_RANGE}

NoArgCmds == (0 .. 31) \cup (64 .. 127) \cup (176 .. 183)
             \cup {160, 161, 164, 165, 166, 167, 174, 175, 192, 200, 227}

\* A byte of a command stream.
OledCommand(o, b) ==
    IF o.cmd = -1 THEN
        IF b \in OneArgCmds \cup TwoArgCmds THEN [o EXCEPT !.cmd = b, !.arg = -1]
        ELSE IF b \in 176 .. 183 THEN [o EXCEPT !.page = b - 176]
        ELSE IF b \in 0 .. 15 THEN [o EXCEPT !.col = (o.col \div 16) * 16 + b]
        ELSE IF b \in 16 .. 31 THEN [o EXCEPT !.col = ((b - 16) % 8) * 16 + (o.col % 16)]
        ELSE IF b = 174 THEN [o EXCEPT !.on = FALSE]
        ELSE IF b = 175 THEN [o EXCEPT !.on = TRUE]
        ELSE IF b \in NoArgCmds THEN o
        ELSE [o EXCEPT !.defined = FALSE]
    ELSE IF o.cmd \in TwoArgCmds /\ o.arg = -1 THEN [o EXCEPT !.arg = b]
    ELSE IF o.cmd = OLED_CMD_SET_COLUMN_RANGE THEN
        [o EXCEPT !.cmd = -1, !.arg = -1, !.colStart = o.arg % 128,
                  !.colEnd = b % 128, !.col = o.arg % 128]
    ELSE IF o.cmd = OLED_CMD_SET_PAGE_RANGE THEN
        [o EXCEPT !.cmd = -1, !.arg = -1, !.pageStart = o.arg % 8,
                  !.pageEnd = b % 8, !.page = o.arg % 8]
    ELSE IF o.cmd = 32 THEN
        [o EXCEPT !.cmd = -1, !.mode = b % 4, !.defined = @ /\ (b % 4 # 3)]
    ELSE IF o.cmd = 129 THEN [o EXCEPT !.cmd = -1, !.contrast = b]
    ELSE [o EXCEPT !.cmd = -1]

\* The cursor after one data byte: the column advances; past the end of the
\* column range it returns to the start, and in horizontal mode the page
\* advances with it.
OledAdvance(o) ==
    IF o.mode = 1 THEN
        IF o.page # o.pageEnd THEN [o EXCEPT !.page = (o.page + 1) % 8]
        ELSE [o EXCEPT !.page = o.pageStart,
                       !.col = IF o.col = o.colEnd THEN o.colStart
                               ELSE (o.col + 1) % 128]
    ELSE IF o.col # o.colEnd THEN [o EXCEPT !.col = (o.col + 1) % 128]
    ELSE IF o.mode = 0 THEN
        [o EXCEPT !.col = o.colStart,
                  !.page = IF o.page = o.pageEnd THEN o.pageStart
                           ELSE (o.page + 1) % 8]
    ELSE [o EXCEPT !.col = o.colStart]

\* The written cells after byte b is stored at address a.
Store(ram, a, b) ==
    [x \in (DOMAIN ram) \cup {a} |-> IF x = a THEN b ELSE ram[x]]

\* The panel's reaction to one acknowledged bus primitive: registers and RAM.
PanelStep(o, ram, p) ==
    IF p.k = "START" THEN [o |-> [o EXCEPT !.chan = "addr"], ram |-> ram]
    ELSE IF p.k = "STOP" THEN
        [o |-> [o EXCEPT !.chan = "idle", !.cmd = -1, !.arg = -1], ram |-> ram]
    ELSE IF p.k = "SLA" THEN
        [o |-> [o EXCEPT !.chan = IF o.chan = "addr" /\ p.b = SLA_W THEN "ctrl"
                                  ELSE "idle"],
         ram |-> ram]
    ELSE IF o.chan = "ctrl" THEN
        [o |-> IF p.b = 0 THEN [o EXCEPT !.chan = "cmd"]
               ELSE IF p.b = 64 THEN [o EXCEPT !.chan = "dat"]
               ELSE [o EXCEPT !.chan = "idle", !.defined = FALSE],
         ram |-> ram]
    ELSE IF o.chan = "cmd" THEN [o |-> OledCommand(o, p.b), ram |-> ram]
    ELSE IF o.chan = "dat" THEN
        [o |-> OledAdvance(o), ram |-> Store(ram, o.page * Columns + o.col, p.b)]
    ELSE [o |-> [o EXCEPT !.defined = FALSE], ram |-> ram]

\* Registers whose values are not known any more.
OledUnknown == [OledReset EXCEPT !.defined = FALSE]

\* No cell written yet.
NoWrites == [x \in {} |-> 0]

\* Power-on contents of the display RAM, which the reset leaves undefined:
\* all dark, all lit, or a pattern that differs from cell to cell.
PowerOnByte(pattern, page, column) ==
    IF pattern = "dark" THEN 0
    ELSE IF pattern = "lit" THEN 255
    ELSE (37 * page + 11 * column + 5) % 256

\* The byte the display RAM holds at (page, column).
Cell(ram, pattern, page, column) ==
    IF page * Columns + column \in DOMAIN ram THEN ram[page * Columns + column]
    ELSE PowerOnByte(pattern, page, column)

---------------------------------------------------------------------------
(* The host: the TWI unit, the I flag and the error pin.                   *)

\* Faulty variant of Blink: the loop makes 9 rounds (i < 9).
RECURSIVE Blink_Nine(_, _)
Blink_Nine(level, i) == IF i < 9 THEN Blink_Nine(1 - level, i + 1) ELSE level

\* D_ERROR: for (i = 0; i < 10; i++) PORTD ^= 1 << ERROR_PIN;
RECURSIVE Blink(_, _)
Blink(level, i) == IF i < 10 THEN Blink(1 - level, i + 1) ELSE level

D_ERROR(level) == Blink(level, 0)

\* The status code the driver expects after a primitive.
Expected(k) == IF k = "START" THEN TW_START
               ELSE IF k = "SLA" THEN TW_MT_SLA_ACK
               ELSE TW_MT_DATA_ACK

\* The status code of a step that was not acknowledged: bus error after a
\* start, SLA+W NACK (0x20), data NACK (0x30).
Refused(k) == IF k = "START" THEN 0 ELSE IF k = "SLA" THEN 32 ELSE 48

\* The status codes TWSR may hold after primitive k.  A start inside an open
\* session is a repeated start (0x10); a byte without a session finds no
\* relevant state (0xF8).
Statuses(k, open, b) ==
    IF k = "START" /\ open THEN {16}
    ELSE IF k # "START" /\ ~open THEN {248}
    ELSE IF b = "ack" THEN {Expected(k)}
    ELSE IF b = "nack" THEN {Refused(k)}
    ELSE {Expected(k), Refused(k)}

\* Faulty variant of Failed: only the byte transmissions are checked.
Failed_DataOnly(k, status) == k = "TX" /\ BitAnd(status, 248) # TW_MT_DATA_ACK

\* if ((TWSR & 0xF8) != expected) D_ERROR();
Failed(k, status) == BitAnd(status, 248) # Expected(k)

\* Faulty variant of Primitive: a bad status ends the operation on the spot.
Primitive_Abort(p, bad) ==
    LET r == PanelStep(oled, gddram, p)
        known == synced /\ ~bad /\ r.o.defined
    IN  /\ prog' = IF bad THEN <<>> ELSE Tail(prog)
        /\ wire' = Append(wire, p)
        /\ nerr' = IF bad THEN 1 ELSE 0
        /\ portd' = IF bad THEN D_ERROR(portd) ELSE portd
        /\ synced' = known
        /\ oled' = IF known THEN r.o ELSE OledUnknown
        /\ gddram' = IF known THEN r.ram ELSE NoWrites
        /\ UNCHANGED <<script, calls, op, ret, bus, powerOn, numdec>>

\* What every primitive does besides its own register writes: it is logged,
\* the error pin blinks on a bad status, and the panel takes the step if it
\* acknowledged it.  Once a step was refused, or a byte was undefined for the
\* panel, the panel's registers and RAM are no longer known.
Primitive(p, bad) ==
    LET r == PanelStep(oled, gddram, p)
        known == synced /\ ~bad /\ r.o.defined
    IN  /\ prog' = Tail(prog)
        /\ wire' = Append(wire, p)
        /\ nerr' = IF bad THEN 1 ELSE 0
        /\ portd' = IF bad THEN D_ERROR(portd) ELSE portd
        /\ synced' = known
        /\ oled' = IF known THEN r.o ELSE OledUnknown
        /\ gddram' = IF known THEN r.ram ELSE NoWrites
        /\ UNCHANGED <<script, calls, op, ret, bus, powerOn, numdec>>

\* TwStart, TwAddress and TwByte each take a step from the write of TWCR to
\* the check of TWSR at once, the TWI unit having finished it; TwIssue and
\* TwComplete below take the same steps in two halves, with the wait loop
\* between them.

\* cli(); TWCR = TWINT|TWSTA|TWEN; wait; check 0x08.
TwStart ==
    /\ prog # <<>> /\ Head(prog).k = "START"
    /\ \E status \in Statuses("START", busOpen, bus) :
           /\ twsr' = status
           /\ Primitive(Head(prog), Failed("START", status))
    /\ ie' = FALSE
    /\ busOpen' = TRUE
    /\ UNCHANGED twint

\* TWDR = SLA_W; TWCR = TWINT|TWEN; wait; check 0x18.
TwAddress ==
    /\ prog # <<>> /\ Head(prog).k = "SLA"
    /\ \E status \in Statuses("SLA", busOpen, bus) :
           /\ twsr' = status
           /\ Primitive(Head(prog), Failed("SLA", status))
    /\ UNCHANGED <<ie, busOpen, twint>>

\* D_TX: TWDR = DATA; TWCR = TWINT|TWEN; wait; check 0x28.
TwByte ==
    /\ prog # <<>> /\ Head(prog).k = "TX"
    /\ \E status \in Statuses("TX", busOpen, bus) :
           /\ twsr' = status
           /\ Primitive(Head(prog), Failed("TX", status))
    /\ UNCHANGED <<ie, busOpen, twint>>

\* Faulty variant of TwStop: the stop is sent but interrupts stay disabled.
TwStop_NoSei ==
    /\ prog # <<>> /\ Head(prog).k = "STOP"
    /\ Primitive(Head(prog), FALSE)
    /\ UNCHANGED <<ie, twsr, twint>>
    /\ busOpen' = FALSE

\* D_STOP: TWCR = TWINT|TWEN|TWSTO; sei();
TwStop ==
    /\ prog # <<>> /\ Head(prog).k = "STOP"
    /\ Primitive(Head(prog), FALSE)
    /\ ie' = TRUE
    /\ UNCHANGED <<twsr, twint>>
    /\ busOpen' = FALSE

\* The first half of a start, address or byte step: (cli(); for a start,
\* TWDR = byte; otherwise) TWCR = TWINT|...: writing TWINT clears the flag and
\* hands the step to the TWI unit; the driver enters while (!(TWCR & TWINT)).
TwIssue ==
    /\ prog # <<>> /\ Head(prog).k # "STOP"
    /\ twint
    /\ twint' = FALSE
    /\ ie' = IF Head(prog).k = "START" THEN FALSE ELSE ie
    /\ UNCHANGED <<script, calls, op, ret, bus, prog, wire, busOpen, twsr, portd, nerr,
                   synced, oled, powerOn, gddram, numdec>>

\* Faulty variant of TwComplete: a step with a bad status is issued again
\* after D_ERROR instead of being passed over.
TwComplete_Retry ==
    /\ prog # <<>> /\ ~twint
    /\ twint' = TRUE
    /\ \E status \in Statuses(Head(prog).k, busOpen, bus) :
           /\ twsr' = status
           /\ IF Failed(Head(prog).k, status)
              THEN /\ nerr' = 1
                   /\ portd' = D_ERROR(portd)
                   /\ UNCHANGED <<script, calls, op, ret, bus, prog, wire, busOpen,
                                  synced, oled, powerOn, gddram, numdec>>
              ELSE /\ Primitive(Head(prog), FALSE)
                   /\ busOpen' = (busOpen \/ Head(prog).k = "START")
    /\ UNCHANGED ie

\* The second half: the TWI unit sets TWINT with the status of the step in
\* TWSR, the wait loop ends and the driver checks the status.  The session
\* is open once the start condition is out.
TwComplete ==
    /\ prog # <<>> /\ ~twint
    /\ twint' = TRUE
    /\ \E status \in Statuses(Head(prog).k, busOpen, bus) :
           /\ twsr' = status
           /\ Primitive(Head(prog), Failed(Head(prog).k, status))
    /\ busOpen' = (busOpen \/ Head(prog).k = "START")
    /\ UNCHANGED ie

---------------------------------------------------------------------------
(* The public operations.  A call is taken from the application's          *)
(* straight-line code (script) if there is any, and otherwise chosen from  *)
(* the repertoire S while fewer than limit calls were made.                *)

Op(name, a, b, c, s) == [name |-> name, a |-> a, b |-> b, c |-> c, s |-> s]

Choice(S, limit) ==
    IF script # <<>> THEN {Head(script)}
    ELSE IF calls < limit THEN S ELSE {}

\* Entering operation c, whose body executes program.
Invoke(c, program) ==
    /\ prog = <<>>
    /\ op' = c
    /\ prog' = program
    /\ wire' = <<>>
    /\ nerr' = 0
    /\ script' = IF script # <<>> THEN Tail(script) ELSE script
    /\ calls' = IF script # <<>> THEN calls ELSE calls + 1
    /\ UNCHANGED <<bus, busOpen, ie, twsr, twint, portd, synced, oled, powerOn, gddram>>

\* Flash contents past the font table that an out-of-table read may return.
JunkBytes == {0, 174, 255}

CallInit(S, limit) ==
    \E c \in Choice(S, limit) :
        c.name = "D_INIT" /\ Invoke(c, D_INIT) /\ UNCHANGED <<ret, numdec>>

CallClear(S, limit) ==
    \E c \in Choice(S, limit) :
        c.name = "D_CLEAR" /\ Invoke(c, D_CLEAR) /\ UNCHANGED <<ret, numdec>>

CallOn(S, limit) ==
    \E c \in Choice(S, limit) :
        c.name = "D_ON" /\ Invoke(c, D_ON) /\ UNCHANGED <<ret, numdec>>

CallOff(S, limit) ==
    \E c \in Choice(S, limit) :
        c.name = "D_OFF" /\ Invoke(c, D_OFF) /\ UNCHANGED <<ret, numdec>>

CallContrast(S, limit) ==
    \E c \in Choice(S, limit) :
        c.name = "D_CONTRAST" /\ Invoke(c, D_CONTRAST(c.a)) /\ UNCHANGED <<ret, numdec>>

CallSetPos(S, limit) ==
    \E c \in Choice(S, limit) :
        c.name = "D_SETPOS" /\ Invoke(c, D_SETPOS(c.a, c.b)) /\ UNCHANGED <<ret, numdec>>

CallDrawHor(S, limit) ==
    \E c \in Choice(S, limit) :
        /\ c.name = "D_DRAW_HOR"
        /\ Invoke(c, D_DRAW_HOR(c.a, c.b, c.c))
        /\ UNCHANGED <<ret, numdec>>

CallDrawVert(S, limit) ==
    \E c \in Choice(S, limit) :
        /\ c.name = "D_DRAW_VERT"
        /\ Invoke(c, D_DRAW_VERT(c.a, c.b, c.c))
        /\ UNCHANGED <<ret, numdec>>

CallPrintStr(S, limit) ==
    \E c \in Choice(S, limit) : \E junk \in JunkBytes :
        /\ c.name = "D_PRINT_STR"
        /\ Invoke(c, D_PRINT_STR(c.s, junk))
        /\ UNCHANGED <<ret, numdec>>

CallPrintInt(S, limit) ==
    \E c \in Choice(S, limit) : \E junk \in JunkBytes :
        /\ c.name = "D_PRINT_INT"
        /\ Invoke(c, D_PRINT_INT(c.a, numdec, junk))
        /\ numdec' = PrintIntBuffer(c.a, numdec)
        /\ UNCHANGED ret

\* usint2decascii(num, ssd1306_numdec_buffer), called on its own.
CallDec(S, limit) ==
    \E c \in Choice(S, limit) :
        /\ c.name = "usint2decascii"
        /\ Invoke(c, <<>>)
        /\ numdec' = usint2decascii(c.a, numdec).buffer
        /\ ret' = usint2decascii(c.a, numdec).digits

\* D_DEMO is a straight-line caller of the public operations: entering it
\* puts its statements in front of the script.  Its counter loop is one
\* script entry, unfolded an iteration at a time by DemoLoop.
DemoBody == <<
    Op("D_CLEAR", 0, 0, 0, <<>>),
    Op("D_DRAW_HOR", 0, 0, 127, <<>>),
    Op("D_DRAW_HOR", 0, 63, 127, <<>>),
    Op("D_DRAW_VERT", 0, 0, 64, <<>>),
    Op("D_DRAW_VERT", 127, 0, 64, <<>>),
    Op("D_SETPOS", 25, 1, 0, <<>>),
    Op("D_PRINT_STR", 0, 0, 0, <<68, 69, 77, 79, 78, 83, 84, 82, 65, 84, 73, 79, 78>>),   \* DEMONSTRATION
    Op("D_SETPOS", 6, 3, 0, <<>>),
    Op("D_PRINT_STR", 0, 0, 0, <<84, 104, 101, 32, 100, 105, 115, 112, 108, 97, 121, 32, 119, 105, 108, 108, 32, 98, 101>>),   \* The display will be
    Op("D_SETPOS", 34, 4, 0, <<>>),
    Op("D_PRINT_STR", 0, 0, 0, <<116, 117, 114, 110, 101, 100, 32, 111, 102, 102>>),   \* turned off
    Op("D_SETPOS", 30, 5, 0, <<>>),
    Op("D_PRINT_STR", 0, 0, 0, <<116, 101, 109, 112, 111, 114, 97, 114, 105, 108, 121>>),   \* temporarily
    Op("D_OFF", 0, 0, 0, <<>>),
    Op("D_CLEAR", 0, 0, 0, <<>>),
    Op("D_ON", 0, 0, 0, <<>>),
    Op("D_SETPOS", 2, 3, 0, <<>>),
    Op("D_PRINT_STR", 0, 0, 0, <<32, 32, 32, 67, 111, 117, 110, 116, 101, 114, 32, 61, 32>>),   \* (3 blanks) Counter =
    Op("for", 800, 0, 0, <<>>),
    Op("D_CLEAR", 0, 0, 0, <<>>),
    Op("D_SETPOS", 18, 4, 0, <<>>),
    Op("D_PRINT_STR", 0, 0, 0, <<76, 79, 87, 69, 83, 84, 32, 67, 79, 78, 84, 82, 65, 83, 84>>),   \* LOWEST CONTRAST
    Op("D_CONTRAST", 255, 0, 0, <<>>),
    Op("D_SETPOS", 14, 4, 0, <<>>),
    Op("D_PRINT_STR", 0, 0, 0, <<72, 73, 71, 72, 69, 83, 84, 32, 67, 79, 78, 84, 82, 65, 83, 84>>),   \* HIGHEST CONTRAST
    Op("D_CONTRAST", 0, 0, 0, <<>>)
>>

CallDemo(S, limit) ==
    \E c \in Choice(S, limit) :
        /\ c.name = "D_DEMO"
        /\ prog = <<>>
        /\ op' = c
        /\ script' = DemoBody \o (IF script # <<>> THEN Tail(script) ELSE script)
        /\ calls' = IF script # <<>> THEN calls ELSE calls + 1
        /\ wire' = <<>>
        /\ nerr' = 0
        /\ UNCHANGED <<ret, bus, prog, busOpen, ie, twsr, twint, portd, synced, oled,
                       powerOn, gddram, numdec>>

\* for (uint16_t i = 800; i > 0; i--) { D_SETPOS(2+13*6, 3); D_PRINT_INT(i); }
DemoLoop ==
    /\ prog = <<>>
    /\ script # <<>> /\ Head(script).name = "for"
    /\ LET i == Head(script).a
       IN  script' = IF i > 0
                     THEN <<Op("D_SETPOS", U8(2 + 13 * 6), 3, 0, <<>>),
                            Op("D_PRINT_INT", i, 0, 0, <<>>),
                            Op("for", U16(i - 1), 0, 0, <<>>)>> \o Tail(script)
                     ELSE Tail(script)
    /\ UNCHANGED <<calls, op, ret, bus, prog, wire, busOpen, ie, twsr, twint, portd,
                   nerr, synced, oled, powerOn, gddram, numdec>>

---------------------------------------------------------------------------
(* Initial states: the object constructed, the panel after power-on reset  *)
(* with RAM contents from rams, a bus from buses, a script from scripts.   *)

NoOp == Op("none", 0, 0, 0, <<>>)

InitWith(rams, buses, scripts) ==
    /\ script \in scripts
    /\ calls = 0
    /\ op = NoOp
    /\ ret = -1
    /\ bus \in buses
    /\ prog = <<>>
    /\ wire = <<>>
    /\ busOpen = FALSE
    /\ ie = TRUE
    /\ twsr = 248
    /\ twint = TRUE
    /\ portd = 0
    /\ nerr = 0
    /\ synced = TRUE
    /\ oled = OledReset
    /\ powerOn \in rams
    /\ gddram = NoWrites
    /\ numdec = <<0, 0, 0, 0, 0, 0>>

\* The operation has returned.
Returned(name) == op.name = name /\ prog = <<>>

---------------------------------------------------------------------------
(* Reading the log of bus primitives: the sessions it holds, each as the   *)
(* bytes sent between its address byte and its stop (the control byte      *)
(* first).                                                                 *)

IsTx(p) == p.k = "TX"

\* The session closed by the stop at index j: the bytes sent since the last
\* start before it.
SessionAt(w, j) ==
    LET starts == {i \in 1 .. j : w[i].k = "START"}
        a == IF starts = {} THEN 0 ELSE CHOOSE i \in starts : \A k \in starts : k <= i
        sent == SelectSeq(SubSeq(w, a + 1, j - 1), IsTx)
    IN  [i \in 1 .. Len(sent) |-> sent[i].b]

Sessions(w) ==
    LET stops == {i \in 1 .. Len(w) : w[i].k = "STOP"}
        nth(n) == CHOOSE j \in stops : Cardinality({k \in stops : k <= j}) = n
    IN  [n \in 1 .. Cardinality(stops) |-> SessionAt(w, nth(n))]

IsData(s) == s # <<>> /\ s[1] = 64

IsCommand(s) == s # <<>> /\ s[1] = 0

\* The data sessions of the log, each as its data bytes.
RECURSIVE Payloads(_)
Payloads(ss) ==
    IF ss = <<>> THEN <<>>
    ELSE IF IsData(Head(ss)) THEN <<Tail(Head(ss))>> \o Payloads(Tail(ss))
    ELSE Payloads(Tail(ss))

DataSessions(w) == Payloads(Sessions(w))

\* All data bytes of the log, in order.
RECURSIVE Flatten(_)
Flatten(ss) == IF ss = <<>> THEN <<>> ELSE Head(ss) \o Flatten(Tail(ss))

DataBytes(w) == Flatten(DataSessions(w))

\* The three bytes of a position command for (column, page).
PosBytes(column, page) == <<0, 176 + page, 16 + (column \div 16), column % 16>>

---------------------------------------------------------------------------
(* SpecVert: one D_DRAW_VERT call, for every start row and length that     *)
(* stays on the panel, on an acknowledging and on a refusing bus.          *)

VertCols == {0, 127}

VertCalls ==
    {c \in {Op("D_DRAW_VERT", x, y, len, <<>>) :
                x \in VertCols, y \in 0 .. 63, len \in 1 .. 64} : c.b + c.c <= 64}

InitVert == InitWith({"dark"}, {"ack", "nack"}, {<<c>> : c \in VertCalls})

NextVert == CallDrawVert({}, 0) \/ TwStart \/ TwAddress \/ TwByte \/ TwStop

SpecVert == InitVert /\ [][NextVert]_vars

CeilDiv(a, b) == (a + b - 1) \div b

\* C1: when D_DRAW_VERT(x, y, length) has returned (y in 0..63, length in
\* 1..64, y + length <= 64) it has made exactly ceil((y % 8 + length) / 8)
\* page writes, each a data session of one byte.
C1_PageWrites ==
    Returned("D_DRAW_VERT") =>
        /\ Len(DataSessions(wire)) = CeilDiv((op.b % 8) + op.c, 8)
        /\ \A i \in 1 .. Len(DataSessions(wire)) : Len(DataSessions(wire)[i]) = 1

\* C2: when the line stays within one page (y % 8 + length <= 8), D_DRAW_VERT
\* writes exactly one data byte, (0xFF << (y % 8)) & (0xFF >> ((y + length) % 8))
\* cut to 8 bits, in its only data session.
C2_SinglePage ==
    (Returned("D_DRAW_VERT") /\ (op.b % 8) + op.c <= 8) =>
        DataSessions(wire) =
            << <<BitAnd((255 * Pow2(op.b % 8)) % 256, 255 \div Pow2((op.b + op.c) % 8))>> >>

\* C3: when D_DRAW_VERT has written more than one page, the first data byte is
\* (0xFF << (y % 8)) mod 256, the last is 0xFF >> ((y + length) % 8), and every
\* byte between them is 0xFF.
C3_Masks ==
    (Returned("D_DRAW_VERT") /\ Len(DataBytes(wire)) > 1) =>
        LET d == DataBytes(wire)
        IN  /\ d[1] = (255 * Pow2(op.b % 8)) % 256
            /\ d[Len(d)] = 255 \div Pow2((op.b + op.c) % 8)
            /\ \A i \in 2 .. Len(d) - 1 : d[i] = 255

\* A line over at least three pages that starts and ends inside a page.
C3_Witness ==
    /\ Returned("D_DRAW_VERT")
    /\ Len(DataBytes(wire)) >= 3
    /\ op.b % 8 # 0
    /\ (op.b + op.c) % 8 # 0

\* Row r of the addressed column is lit by the page writes of the log: some
\* data session that follows a position command for page r / 8 carries a byte
\* with bit r % 8 set.
Lit(w, r) ==
    LET ss == Sessions(w)
    IN  \E i \in 2 .. Len(ss) :
            /\ IsData(ss[i]) /\ Len(ss[i]) >= 2
            /\ IsCommand(ss[i - 1]) /\ Len(ss[i - 1]) = 4
            /\ ss[i - 1][2] = 176 + (r \div 8)
            /\ Bit(ss[i][2], r % 8) = 1

\* C14: when D_DRAW_VERT(x, y, length) has returned (y in 0..63, length >= 1,
\* y + length <= 64) the rows its bytes light are exactly y .. y + length - 1.
C14_ExactRows ==
    Returned("D_DRAW_VERT") =>
        \A r \in 0 .. 63 : Lit(wire, r) <=> r \in op.b .. (op.b + op.c - 1)

\* C19: every position command D_DRAW_VERT(x, y, length) issues (y in 0..63,
\* length >= 1, y + length <= 64) selects a page in 0..7: its page-select byte
\* lies in 0xB0..0xB7.
C19_PagesOnPanel ==
    Returned("D_DRAW_VERT") =>
        \A i \in 1 .. Len(Sessions(wire)) :
            IsCommand(Sessions(wire)[i]) => Sessions(wire)[i][2] \in 176 .. 183

---------------------------------------------------------------------------
(* SpecHor: one D_DRAW_HOR call, on the panel as reset or after D_INIT,    *)
(* over each power-on content of the display RAM.                          *)

HorCols == {0, 100, 127}

HorLens == {0, 1, 28}

HorLongLens == {128, 255}

HorCalls ==
    {Op("D_DRAW_HOR", x, y, len, <<>>) : x \in HorCols, y \in 0 .. 63, len \in HorLens}
    \cup {Op("D_DRAW_HOR", 0, y, len, <<>>) : y \in 0 .. 63, len \in HorLongLens}

HorScripts ==
    {<<c>> : c \in HorCalls}
    \cup {<<Op("D_INIT", 0, 0, 0, <<>>), c>> : c \in {h \in HorCalls : h.c <= 28}}

InitHor ==
    \/ InitWith({"dark", "lit", "mix"}, {"ack"}, HorScripts)
    \/ InitWith({"dark"}, {"nack"}, {<<c>> : c \in HorCalls})

NextHor ==
    CallInit({}, 0) \/ CallDrawHor({}, 0) \/ TwStart \/ TwAddress \/ TwByte \/ TwStop

SpecHor == InitHor /\ [][NextHor]_vars

\* C4: when D_DRAW_HOR(x, y, len) has returned (x in 0..127, y in 0..63, len
\* in 0..255) it has sent the position command for column x, page y / 8, and
\* then one data session of exactly len bytes, each 1 << (y % 8).
C4_HorBytes ==
    Returned("D_DRAW_HOR") =>
        Sessions(wire) = << PosBytes(op.a, op.b \div 8),
                            <<64>> \o [i \in 1 .. op.c |-> Pow2(op.b % 8)] >>

\* The longest line, on a row inside a page and off column 0 of a nibble.
C4_Witness == Returned("D_DRAW_HOR") /\ op.c = 255 /\ op.b % 8 = 5

\* C10: after D_DRAW_HOR(x, y, length) with x + length <= 128 on a panel that
\* acknowledged every step, every cell of page y / 8 in columns x .. x+length-1
\* holds exactly row y (whatever it held before), and every other cell of the
\* display RAM holds what it held before.
C10_HorFrame ==
    (Returned("D_DRAW_HOR") /\ synced /\ op.a + op.c <= 128) =>
        \A page \in 0 .. 7 : \A column \in 0 .. 127 :
            Cell(gddram, powerOn, page, column) =
                IF page = op.b \div 8 /\ column \in op.a .. (op.a + op.c - 1)
                THEN Pow2(op.b % 8)
                ELSE PowerOnByte(powerOn, page, column)

\* A line that ends at the last column, over RAM that held lit pixels in the
\* same page, on an initialised panel.
C10_Witness ==
    /\ Returned("D_DRAW_HOR") /\ synced
    /\ op.a = 100 /\ op.c = 28 /\ op.b = 13
    /\ powerOn = "mix"
    /\ oled.mode = 0

---------------------------------------------------------------------------
(* Spec: the application makes up to MaxCalls calls of its choice from a   *)
(* repertoire holding every public operation, on a bus that acknowledges   *)
(* or refuses each step as it likes; or it runs the demo sketch, D_INIT    *)
(* followed by D_DEMO.                                                     *)

MaxCalls == 2

Repertoire == {
    Op("D_INIT", 0, 0, 0, <<>>),
    Op("D_CLEAR", 0, 0, 0, <<>>),
    Op("D_ON", 0, 0, 0, <<>>),
    Op("D_OFF", 0, 0, 0, <<>>),
    Op("D_CONTRAST", 255, 0, 0, <<>>),
    Op("D_SETPOS", 100, 7, 0, <<>>),
    Op("D_PRINT_STR", 0, 0, 0, <<>>),
    Op("D_PRINT_STR", 0, 0, 0, <<72, 105>>),
    Op("D_PRINT_INT", 0, 0, 0, <<>>),
    Op("D_PRINT_INT", 65535, 0, 0, <<>>),
    Op("D_DRAW_HOR", 120, 40, 3, <<>>),
    Op("D_DRAW_VERT", 5, 3, 20, <<>>),
    Op("usint2decascii", 7, 0, 0, <<>>) }

Sketch == <<Op("D_INIT", 0, 0, 0, <<>>), Op("D_DEMO", 0, 0, 0, <<>>)>>

Init ==
    \/ InitWith({"mix"}, {"any"}, {<<>>})
    \/ InitWith({"mix"}, {"ack"}, {Sketch})

Next ==
    \/ CallInit(Repertoire, MaxCalls)
    \/ CallClear(Repertoire, MaxCalls)
    \/ CallOn(Repertoire, MaxCalls)
    \/ CallOff(Repertoire, MaxCalls)
    \/ CallContrast(Repertoire, MaxCalls)
    \/ CallSetPos(Repertoire, MaxCalls)
    \/ CallDrawHor(Repertoire, MaxCalls)
    \/ CallDrawVert(Repertoire, MaxCalls)
    \/ CallPrintStr(Repertoire, MaxCalls)
    \/ CallPrintInt(Repertoire, MaxCalls)
    \/ CallDec(Repertoire, MaxCalls)
    \/ CallDemo(Repertoire, MaxCalls)
    \/ DemoLoop
    \/ TwStart
    \/ TwAddress
    \/ TwByte
    \/ TwStop

Spec == Init /\ [][Next]_vars

\* C5: in any sequence of public operations a start is issued only while no
\* session is open, a stop only while one is open, and no session is open
\* when an operation has returned.
C5_Bracketed ==
    /\ (prog # <<>> /\ Head(prog).k = "START") => ~busOpen
    /\ (prog # <<>> /\ Head(prog).k = "STOP") => busOpen
    /\ prog = <<>> => ~busOpen

\* The second of two calls has returned after several sessions, some step of
\* which was refused.
C5_Witness ==
    /\ Returned("D_DRAW_VERT") /\ calls = 2
    /\ Len(Sessions(wire)) >= 4
    /\ ~synced

\* C6: when D_CLEAR has returned it has sent the position command for column
\* 0, page 0, and then one data session of exactly 1024 bytes, all zero, and
\* nothing else.
C6_Clear ==
    Returned("D_CLEAR") =>
        /\ Sessions(wire) = << PosBytes(0, 0), <<64>> \o [i \in 1 .. 1024 |-> 0] >>
        /\ Len(wire) = 7 + 1028

\* D_CLEAR has returned on a panel that took every byte: the whole RAM is
\* written.
C6_Witness ==
    Returned("D_CLEAR") /\ synced /\ Cardinality(DOMAIN gddram) = 1024

\* C7: when D_INIT has returned it has sent, in one command session, the bytes
\* of init_sequence in order (0xAE first, 0xAF last), then the column-range
\* command with 0x00 and 0x7F, then the page-range command with 0 and 0x07,
\* and nothing else.
C7_Init ==
    Returned("D_INIT") =>
        /\ Sessions(wire) =
               << <<0>> \o init_sequence
                  \o <<OLED_CMD_SET_COLUMN_RANGE, 0, 127, OLED_CMD_SET_PAGE_RANGE, 0, 7>> >>
        /\ Len(wire) = Len(init_sequence) + 10
        /\ init_sequence[1] = 174
        /\ init_sequence[Len(init_sequence)] = 175

\* D_INIT has returned on a panel that took every byte: it is on, in
\* horizontal addressing mode, with the full column and page ranges.
C7_Witness ==
    /\ Returned("D_INIT") /\ synced
    /\ oled.on /\ oled.mode = 0
    /\ oled.colEnd = 127 /\ oled.pageEnd = 7

\* The bus steps of call c when every step is acknowledged.
FailureFree(c) ==
    IF c.name = "D_INIT" THEN D_INIT
    ELSE IF c.name = "D_CLEAR" THEN D_CLEAR
    ELSE IF c.name = "D_ON" THEN D_ON
    ELSE IF c.name = "D_OFF" THEN D_OFF
    ELSE IF c.name = "D_CONTRAST" THEN D_CONTRAST(c.a)
    ELSE IF c.name = "D_SETPOS" THEN D_SETPOS(c.a, c.b)
    ELSE IF c.name = "D_DRAW_HOR" THEN D_DRAW_HOR(c.a, c.b, c.c)
    ELSE IF c.name = "D_DRAW_VERT" THEN D_DRAW_VERT(c.a, c.b, c.c)
    ELSE IF c.name = "D_PRINT_STR" THEN D_PRINT_STR(c.s, 0)
    ELSE IF c.name = "D_PRINT_INT" THEN D_PRINT_INT(c.a, numdec, 0)
    ELSE <<>>

\* C12: whatever steps the bus refuses, the steps an operation has executed
\* and those it still has to execute are together the steps of its
\* failure-free run: no step is skipped, repeated or added; and when it has
\* returned, it has sent as many stops as starts and no session is open.
C12_SameSteps ==
    /\ wire \o prog = FailureFree(op)
    /\ prog = <<>> =>
           /\ ~busOpen
           /\ Cardinality({i \in 1 .. Len(wire) : wire[i].k = "START"})
                  = Cardinality({i \in 1 .. Len(wire) : wire[i].k = "STOP"})

\* D_CLEAR has returned after its 1035 steps although steps were refused,
\* the last data byte among them.
C12_Witness ==
    /\ Returned("D_CLEAR") /\ Len(wire) = 1035
    /\ ~synced /\ twsr = 48

\* C13: D_ERROR is called exactly once by a start, address or byte step whose
\* status (TWSR & 0xF8) is not 0x08, 0x18 or 0x28 respectively, and not at
\* all by any other step; on a bus that acknowledges every step it is never
\* called.
C13_OneErrorPerFailure ==
    /\ nerr = IF /\ wire # <<>>
                 /\ wire[Len(wire)].k # "STOP"
                 /\ BitAnd(twsr, 248) # (IF wire[Len(wire)].k = "START" THEN 8
                                         ELSE IF wire[Len(wire)].k = "SLA" THEN 24
                                         ELSE 40)
              THEN 1 ELSE 0
    /\ bus = "ack" => nerr = 0

\* The address phase of a session was refused and D_ERROR was called for it.
C13_Witness ==
    /\ wire # <<>> /\ wire[Len(wire)].k = "SLA"
    /\ twsr = 32 /\ nerr = 1

\* C16: interrupts are disabled exactly while a session is open, they are
\* enabled right after every stop, and they are enabled whenever an
\* operation has returned.
C16_Masked ==
    /\ busOpen <=> ~ie
    /\ (wire # <<>> /\ wire[Len(wire)].k = "STOP") => ie
    /\ prog = <<>> => ie

\* Inside an open session a byte was refused and D_ERROR has blinked:
\* interrupts are still disabled.
C16_Witness ==
    /\ busOpen /\ ~ie
    /\ Len(wire) >= 4 /\ wire[Len(wire)].k = "TX"
    /\ nerr = 1

---------------------------------------------------------------------------
(* SpecInt: usint2decascii on every 16-bit value, and D_PRINT_INT on the   *)
(* values up to MaxInt and around every power of ten.                      *)

MaxInt == 300

IntSample ==
    (0 .. MaxInt) \cup {999, 1000, 1001, 9999, 10000, 10001, 12345, 20000, 40404,
                        54321, 60000, 65530, 65535}

IntScripts ==
    {<<Op("usint2decascii", n, 0, 0, <<>>)>> : n \in 0 .. 65535}
    \cup {<<Op("D_PRINT_INT", n, 0, 0, <<>>)>> : n \in IntSample}

InitInt == InitWith({"dark"}, {"ack"}, IntScripts)

NextInt ==
    CallDec({}, 0) \/ CallPrintInt({}, 0) \/ TwStart \/ TwAddress \/ TwByte \/ TwStop

SpecInt == InitInt /\ [][NextInt]_vars

\* The decimal representation of n, as ASCII codes, most significant first.
RECURSIVE Decimal(_)
Decimal(n) == IF n < 10 THEN <<48 + n>> ELSE Append(Decimal(n \div 10), 48 + (n % 10))

\* The data bytes that show character ch: a blank column and its 5 font bytes.
Shown(ch) == <<0>> \o SubSeq(D_FONT6x8, (ch - 32) * 5 + 1, (ch - 32) * 5 + 5)

\* C8: for every n in 0..65535 usint2decascii returns 5 minus the number of
\* decimal digits of n, leaves the digits of n in buffer positions offset..4
\* and blanks before them; and D_PRINT_INT(n) shows exactly the decimal
\* representation of n, one character per data session.
C8_Decimal ==
    /\ Returned("usint2decascii") =>
           /\ ret = 5 - Len(Decimal(op.a))
           /\ SubSeq(numdec, ret + 1, 5) = Decimal(op.a)
           /\ \A k \in 1 .. ret : numdec[k] = 32
    /\ Returned("D_PRINT_INT") =>
           DataSessions(wire) =
               [i \in 1 .. Len(Decimal(op.a)) |-> Shown(Decimal(op.a)[i])]

\* A value with a zero digit inside and fewer than 5 digits was converted,
\* and zero was printed.
C8_Witness ==
    \/ Returned("usint2decascii") /\ op.a = 1005 /\ ret = 1
    \/ Returned("D_PRINT_INT") /\ op.a = 0 /\ Len(DataSessions(wire)) = 1

---------------------------------------------------------------------------
(* SpecReadme: the example of the README on an initialised panel:          *)
(* D_SETPOS(0, 1); D_PRINT_STR("some text"); D_DRAW_HOR(0, 7, 128);        *)

ReadmeText == <<115, 111, 109, 101, 32, 116, 101, 120, 116>>

ReadmeScript == <<
    Op("D_INIT", 0, 0, 0, <<>>),
    Op("D_SETPOS", 0, 1, 0, <<>>),
    Op("D_PRINT_STR", 0, 0, 0, ReadmeText),
    Op("D_DRAW_HOR", 0, 7, 128, <<>>) >>

InitReadme == InitWith({"dark", "lit", "mix"}, {"ack"}, {ReadmeScript})

NextReadme ==
    \/ CallInit({}, 0)
    \/ CallSetPos({}, 0)
    \/ CallPrintStr({}, 0)
    \/ CallDrawHor({}, 0)
    \/ TwStart
    \/ TwAddress
    \/ TwByte
    \/ TwStop

SpecReadme == InitReadme /\ [][NextReadme]_vars

\* The pixels of the text: character i (from 1) of the text printed from
\* column 0 of page 1 occupies columns 6(i-1)+1 .. 6(i-1)+5 of that page.
TextColumn(i, j) == 6 * (i - 1) + 1 + j

\* C9: after D_SETPOS(0, 1); D_PRINT_STR(text); D_DRAW_HOR(0, 7, 128) on an
\* initialised panel, every pixel the text had lit is dark.
C9_LineErasesText ==
    (Returned("D_DRAW_HOR") /\ script = <<>> /\ synced) =>
        \A i \in 1 .. Len(ReadmeText) : \A j \in 0 .. 4 :
            BitAnd(Cell(gddram, powerOn, 1, TextColumn(i, j)),
                   D_FONT6x8[(ReadmeText[i] - 32) * 5 + j + 1]) = 0

---------------------------------------------------------------------------
(* SpecPos: one D_SETPOS call for every column and page of the panel, on a *)
(* bus that acknowledges every step or answers each step as it likes.      *)

PosScripts == {<<Op("D_SETPOS", x, page, 0, <<>>)>> : x \in 0 .. 127, page \in 0 .. 7}

InitPos == InitWith({"dark"}, {"ack", "any"}, PosScripts)

NextPos == CallSetPos({}, 0) \/ TwStart \/ TwAddress \/ TwByte \/ TwStop

SpecPos == InitPos /\ [][NextPos]_vars

\* C11: when D_SETPOS(x, page) has returned (x in 0..127, page in 0..7) it has
\* executed one command session and nothing else: start, address, control
\* byte 0x00, then 0xB0 + page, 0x10 | (x >> 4), x & 0x0F in this order, then
\* stop; and (x, page) is recovered from the three bytes, each of which lies
\* in the range of its own command.
C11_SetPos ==
    Returned("D_SETPOS") =>
        /\ wire = << Prim("START", 0), Prim("SLA", SLA_W), Prim("TX", 0),
                     Prim("TX", 176 + op.b),
                     Prim("TX", 16 + (op.a \div 16)),
                     Prim("TX", op.a % 16),
                     Prim("STOP", 0) >>
        /\ LET b == Sessions(wire)[1]
           IN  /\ b[2] \in 176 .. 183 /\ b[3] \in 16 .. 23 /\ b[4] \in 0 .. 15
               /\ op.b = b[2] - 176
               /\ op.a = (b[3] - 16) * 16 + b[4]

\* The last column of the last page was addressed and the panel's cursor is
\* there.
C11_Witness ==
    /\ Returned("D_SETPOS") /\ op.a = 127 /\ op.b = 7
    /\ synced /\ oled.col = 127 /\ oled.page = 7

---------------------------------------------------------------------------
(* SpecDraw: one call of a drawing operation that targets a position:      *)
(* D_CLEAR, D_DRAW_HOR, or D_DRAW_VERT with every start row and length     *)
(* that stays on the panel; the bus answers each step as it likes.         *)

DrawCalls ==
    {Op("D_CLEAR", 0, 0, 0, <<>>)}
    \cup HorCalls
    \cup {c \in {Op("D_DRAW_VERT", 77, y, len, <<>>) :
                    y \in 0 .. 63, len \in 1 .. 64} : c.b + c.c <= 64}

InitDraw == InitWith({"dark"}, {"any"}, {<<c>> : c \in DrawCalls})

NextDraw ==
    \/ CallClear({}, 0)
    \/ CallDrawHor({}, 0)
    \/ CallDrawVert({}, 0)
    \/ TwStart
    \/ TwAddress
    \/ TwByte
    \/ TwStop

SpecDraw == InitDraw /\ [][NextDraw]_vars

\* The session is a complete position command: control byte, page select,
\* column high nibble, column low nibble.
IsSetPos(s) ==
    /\ IsCommand(s) /\ Len(s) = 4
    /\ s[2] \in 176 .. 255 /\ s[3] \in 16 .. 31 /\ s[4] \in 0 .. 15

\* C15: when D_CLEAR, D_DRAW_HOR or D_DRAW_VERT has returned, its sessions
\* come in pairs, a complete position command and then a data session, and
\* there are as many starts and stops as sessions; D_DRAW_VERT(x, y, length)
\* has made one such pair for each page from y / 8 to (y + length) / 8 in
\* ascending order, the command positioning at (x, page) and the data session
\* carrying one byte.
C15_Positioned ==
    (prog = <<>> /\ op.name \in {"D_CLEAR", "D_DRAW_HOR", "D_DRAW_VERT"}) =>
        LET ss == Sessions(wire)
            starts == {i \in 1 .. Len(wire) : wire[i].k = "START"}
        IN  /\ Len(ss) % 2 = 0 /\ Len(ss) >= 2
            /\ Cardinality(starts) = Len(ss)
            /\ \A i \in 1 .. Len(ss) :
                   IF i % 2 = 1 THEN IsSetPos(ss[i]) ELSE IsData(ss[i])
            /\ op.name = "D_DRAW_VERT" =>
                   /\ Len(ss) = 2 * (((op.b + op.c) \div 8) - (op.b \div 8) + 1)
                   /\ \A k \in 1 .. Len(ss) \div 2 :
                          /\ ss[2 * k - 1] = PosBytes(op.a, (op.b \div 8) + k - 1)
                          /\ Len(ss[2 * k]) = 2

\* A vertical line from inside page 0 to inside page 7 was drawn: eight
\* position commands, eight data sessions.
C15_Witness ==
    /\ Returned("D_DRAW_VERT") /\ op.b = 3 /\ op.c = 58
    /\ Len(Sessions(wire)) = 16

---------------------------------------------------------------------------
(* SpecStr: one D_PRINT_STR call on the empty string, on each printable    *)
(* ASCII character and on some longer strings, or one D_PRINT_INT call.    *)

StrSample ==
    {<<>>}
    \cup {<<ch>> : ch \in 32 .. 126}
    \cup {<<72, 105>>,                  \* Hi
          <<48, 32, 57, 122>>,          \* 0 9z
          <<122, 123, 126>>,            \* z{~
          ReadmeText}

StrScripts ==
    {<<Op("D_PRINT_STR", 0, 0, 0, t)>> : t \in StrSample}
    \cup {<<Op("D_PRINT_INT", n, 0, 0, <<>>)>> : n \in {0, 7, 1090, 65535}}

InitStr == InitWith({"dark"}, {"ack", "any"}, StrScripts)

NextStr ==
    CallPrintStr({}, 0) \/ CallPrintInt({}, 0) \/ TwStart \/ TwAddress \/ TwByte \/ TwStop

SpecStr == InitStr /\ [][NextStr]_vars

\* The characters the returned operation had to print: the argument of
\* D_PRINT_STR, or what D_PRINT_INT left in the buffer from the offset of
\* the first digit on.
Printed ==
    IF op.name = "D_PRINT_INT" THEN CStr(numdec, 5 - Len(Decimal(op.a))) ELSE op.s

\* Byte i (0..4) of the glyph of ch is inside the font table and d is that
\* byte.
FromTable(ch, i, d) ==
    /\ (ch - 32) * 5 + i \in 0 .. Len(D_FONT6x8) - 1
    /\ d = D_FONT6x8[(ch - 32) * 5 + i + 1]

\* C17: when D_PRINT_STR(s) has returned, it has made exactly Len(s) sessions,
\* all data sessions, one per character in order, each of 6 data bytes: 0x00
\* and then the font-table bytes at (ch - 32) * 5 .. (ch - 32) * 5 + 4; for the
\* empty string it has put nothing on the bus.
C17_Sessions ==
    Returned("D_PRINT_STR") =>
        /\ Len(Sessions(wire)) = Len(op.s)
        /\ Len(DataSessions(wire)) = Len(op.s)
        /\ op.s = <<>> => wire = <<>>
        /\ \A k \in 1 .. Len(op.s) :
               LET d == DataSessions(wire)[k]
               IN  /\ Len(d) = 6
                   /\ d[1] = 0
                   /\ \A i \in 0 .. 4 : FromTable(op.s[k], i, d[i + 2])

\* C20: for every character in 32..126 that D_PRINT_STR or D_PRINT_INT has
\* printed, the five font bytes sent were read inside D_FONT6x8; the
\* characters D_PRINT_INT prints are the blank and the digits.
C20_InTable ==
    (prog = <<>> /\ op.name \in {"D_PRINT_STR", "D_PRINT_INT"}) =>
        /\ \A k \in 1 .. Len(Printed) :
               Printed[k] \in 32 .. 126 =>
                   \A i \in 0 .. 4 :
                       FromTable(Printed[k], i, DataSessions(wire)[k][i + 2])
        /\ op.name = "D_PRINT_INT" =>
               \A k \in 1 .. Len(Printed) : Printed[k] \in {32} \cup (48 .. 57)

---------------------------------------------------------------------------
(* SpecLive: one call of each public operation with the extreme values of  *)
(* its arguments, or the demo sketch, with every bus step taken in its two *)
(* halves.  Inside an operation the processor keeps executing the driver's *)
(* code, and the TWI unit finishes every step it is given: both are weakly *)
(* fair.  Whether the TWI unit ever does finish a step is not the driver's *)
(* doing, so what holds of a wait that never ends is stated as a property  *)
(* of every step.                                                          *)

LiveCalls == {
    Op("D_INIT", 0, 0, 0, <<>>),
    Op("D_CLEAR", 0, 0, 0, <<>>),
    Op("D_ON", 0, 0, 0, <<>>),
    Op("D_OFF", 0, 0, 0, <<>>),
    Op("D_CONTRAST", 255, 0, 0, <<>>),
    Op("D_SETPOS", 255, 255, 0, <<>>),
    Op("D_DRAW_HOR", 0, 0, 0, <<>>),
    Op("D_DRAW_HOR", 255, 255, 255, <<>>),
    Op("D_DRAW_VERT", 0, 0, 0, <<>>),
    Op("D_DRAW_VERT", 0, 0, 64, <<>>),
    Op("D_DRAW_VERT", 0, 0, 255, <<>>),
    Op("D_DRAW_VERT", 255, 255, 1, <<>>),
    Op("D_DRAW_VERT", 255, 255, 255, <<>>),
    Op("D_PRINT_STR", 0, 0, 0, <<>>),
    Op("D_PRINT_STR", 0, 0, 0, <<32, 126, 200, 1>>),
    Op("D_PRINT_INT", 0, 0, 0, <<>>),
    Op("D_PRINT_INT", 65535, 0, 0, <<>>),
    Op("usint2decascii", 65535, 0, 0, <<>>) }

InitLive ==
    \/ InitWith({"dark"}, {"ack", "nack", "any"}, {<<c>> : c \in LiveCalls})
    \/ InitWith({"dark"}, {"ack"}, {Sketch})

\* The steps the processor takes inside an operation.
DriverStep == TwIssue \/ TwStop

NextLive ==
    \/ CallInit({}, 0)
    \/ CallClear({}, 0)
    \/ CallOn({}, 0)
    \/ CallOff({}, 0)
    \/ CallContrast({}, 0)
    \/ CallSetPos({}, 0)
    \/ CallDrawHor({}, 0)
    \/ CallDrawVert({}, 0)
    \/ CallPrintStr({}, 0)
    \/ CallPrintInt({}, 0)
    \/ CallDec({}, 0)
    \/ CallDemo({}, 0)
    \/ DemoLoop
    \/ TwIssue
    \/ TwComplete
    \/ TwStop

SpecLive ==
    InitLive /\ [][NextLive]_vars /\ WF_vars(DriverStep) /\ WF_vars(TwComplete)

\* C18: with a TWI unit that finishes every step it is given, every operation
\* that was entered returns, also when every step is refused; and as long as
\* the TWI unit has not finished the step the driver waits for, nothing
\* happens: no further step, no error signal, no stop.
C18_Terminates ==
    /\ (prog # <<>>) ~> (prog = <<>>)
    /\ [][(~twint /\ ~twint') => UNCHANGED <<prog, wire, portd, nerr, busOpen, ie>>]_vars

\* The longest vertical line an 8-bit start row and length can ask for has
\* returned on a bus that refused every step.
C18_Witness ==
    /\ Returned("D_DRAW_VERT") /\ op.b = 255 /\ op.c = 255
    /\ bus = "nack" /\ twsr = 48
    /\ twint

---------------------------------------------------------------------------
(* SpecBuf: two calls in a row, each D_PRINT_INT or usint2decascii on the  *)
(* shared buffer, with values of every number of digits.                   *)

BufCalls ==
    {Op(name, n, 0, 0, <<>>) : name \in {"D_PRINT_INT", "usint2decascii"},
                               n \in {0, 7, 40, 100, 1090, 54321, 65535}}

InitBuf == InitWith({"dark"}, {"ack"}, {<<c, d>> : c \in BufCalls, d \in BufCalls})

NextBuf ==
    CallDec({}, 0) \/ CallPrintInt({}, 0) \/ TwStart \/ TwAddress \/ TwByte \/ TwStop

SpecBuf == InitBuf /\ [][NextBuf]_vars

\* C21: index 5 of ssd1306_numdec_buffer always holds the terminator; once a
\* conversion has run, indices 0..4 hold blanks and digits, never a
\* terminator; and when D_PRINT_INT(n) has returned, the characters it has
\* shown are those of the buffer from the offset of the first digit of n up
\* to index 4, which is where the C string at that offset ends.
C21_Terminator ==
    /\ numdec[6] = 0
    /\ op.name \in {"D_PRINT_INT", "usint2decascii"} =>
           \A k \in 1 .. 5 : numdec[k] \in {32} \cup (48 .. 57)
    /\ Returned("D_PRINT_INT") =>
           LET offset == 5 - Len(Decimal(op.a))
           IN  /\ CStr(numdec, offset) = SubSeq(numdec, offset + 1, 5)
               /\ DataSessions(wire) =
                      [i \in 1 .. 5 - offset |-> Shown(numdec[offset + i])]

\* The second of two calls, D_PRINT_INT(7), has returned: whatever the first
\* call left, the buffer holds four blanks, the digit and the terminator.
C21_Witness ==
    /\ Returned("D_PRINT_INT") /\ op.a = 7 /\ script = <<>>
    /\ numdec = <<32, 32, 32, 32, 55, 0>>
    /\ Len(DataSessions(wire)) = 1

---------------------------------------------------------------------------
(* SpecErr: one or two calls on a bus that refuses steps as it likes, with *)
(* the error pin at either level when the application starts.              *)

ErrCalls == {
    Op("D_ON", 0, 0, 0, <<>>),
    Op("D_SETPOS", 100, 7, 0, <<>>),
    Op("D_DRAW_VERT", 5, 3, 20, <<>>),
    Op("D_PRINT_STR", 0, 0, 0, <<72, 105>>) }

InitErr ==
    /\ script \in {<<c>> : c \in ErrCalls} \cup {<<c, d>> : c \in ErrCalls, d \in ErrCalls}
    /\ calls = 0
    /\ op = NoOp
    /\ ret = -1
    /\ bus = "any"
    /\ prog = <<>>
    /\ wire = <<>>
    /\ busOpen = FALSE
    /\ ie = TRUE
    /\ twsr = 248
    /\ twint = TRUE
    /\ portd \in {0, 1}
    /\ nerr = 0
    /\ synced = TRUE
    /\ oled = OledReset
    /\ powerOn = "dark"
    /\ gddram = NoWrites
    /\ numdec = <<0, 0, 0, 0, 0, 0>>

NextErr ==
    \/ CallOn({}, 0)
    \/ CallSetPos({}, 0)
    \/ CallDrawVert({}, 0)
    \/ CallPrintStr({}, 0)
    \/ TwStart
    \/ TwAddress
    \/ TwByte
    \/ TwStop

SpecErr == InitErr /\ [][NextErr]_vars

\* C22: no step changes the level of the error pin: a step that calls
\* D_ERROR toggles it an even number of times (10), any other step not at
\* all; so the level when an operation has returned is the level before it,
\* and then interrupts are enabled and no session is open, whatever steps
\* were refused.
C22_NotLatched ==
    [][/\ portd' = portd
       /\ prog' = <<>> => (ie' /\ ~busOpen')]_vars

\* The second of two calls has returned with the pin high as before,
\* although steps were refused, the last byte among them.
C22_Witness ==
    /\ Returned("D_PRINT_STR") /\ script = <<>> /\ Len(wire) = 20
    /\ portd = 1
    /\ ~synced /\ twsr = 48

====
